---- MODULE Spec2Model ----
(***************************************************************************)
(* A model of git-ignore: the ignore store (src/src/ignore.rs), the        *)
(* repository context resolver with its write-once caches                  *)
(* (src/src/git.rs), and the command surface and library entry points      *)
(* (src/src/main.rs, src/src/lib.rs).                                      *)
(*                                                                         *)
(* Text is modelled as a sequence of one-character strings, so that        *)
(* sanitizing, trimming, line splitting and appending are computed the way *)
(* the code computes them.                                                 *)
(***************************************************************************)
EXTENDS Integers, Sequences, FiniteSets, TLC

VARIABLES
    patterns,   \* the raw pattern list handed to the operations
    fs,         \* the file system: path -> [parent, exists, content]
    log,        \* one record per completed operation, oldest first
    env,        \* what the host git tool answers to a query
    cell,       \* the two write-once caches: query -> state of the OnceLock
    tpc,        \* thread -> position in get_git_dir / get_repo_root
    tq,         \* thread -> the query it is calling
    ret,        \* thread -> the outcomes its completed calls returned
    gitRuns     \* query -> number of times the git process was spawned

vars == <<patterns, fs, log, env, cell, tpc, tq, ret, gitRuns>>

----------------------------------------------------------------------------
(* Bounds of the model.                                                    *)

\* longest pattern list handed to one operation
MaxPats == 2
\* most operations on the ignore store in one behaviour, and most calls of
\* one thread to the context resolver
MaxCalls == 2
\* threads calling the context resolver
MaxThreads == 2
\* longest string handed to sanitize_pattern on its own
MaxLen == 3

----------------------------------------------------------------------------
(* Text.                                                                   *)

NL == "\n"
CR == "\r"

\* The characters str::trim removes that the model's alphabet holds.
\* U+000B (line tabulation), U+0085 (next line), U+00A0 (no-break space),
\* U+1680 (ogham space mark)
VT == ""
NEL == ""
NBSP == " "
OGHAM == " "

\* The other characters with the property White_Space.  A string literal
\* cannot hold them, so each is named by its code point; a name is one
\* character of a text, as every element of a sequence is.
WideSpaces ==
    { "U+2000", "U+2001", "U+2002", "U+2003", "U+2004", "U+2005", "U+2006",
      "U+2007", "U+2008", "U+2009", "U+200A", "U+2028", "U+2029", "U+202F",
      "U+205F", "U+3000" }

\* The characters char::is_whitespace holds for: U+0009..U+000D, U+0020,
\* U+0085, U+00A0, U+1680 and the wide spaces.
Whitespace ==
    {" ", "\t", NL, VT, "\f", CR, NEL, NBSP, OGHAM} \cup WideSpaces

Range(s) == {s[i] : i \in DOMAIN s}

Min(S) == CHOOSE x \in S : \A y \in S : x <= y

RECURSIVE Flatten(_)
Flatten(ss) == IF ss = <<>> THEN <<>> ELSE Head(ss) \o Flatten(Tail(ss))

RECURSIVE trim_start(_)
trim_start(s) ==
    IF s # <<>> /\ Head(s) \in Whitespace THEN trim_start(Tail(s)) ELSE s

RECURSIVE trim_end(_)
trim_end(s) ==
    IF s # <<>> /\ s[Len(s)] \in Whitespace
    THEN trim_end(SubSeq(s, 1, Len(s) - 1))
    ELSE s

trim(s) == trim_end(trim_start(s))

IsLineBreak(c) == c \in {NL, CR}

\* a check for \r alone
contains_cr_only(p) == \E i \in DOMAIN p : p[i] = CR

\* original_pattern.contains(['\n', '\r'])
contains_newline(p) == \E i \in DOMAIN p : IsLineBreak(p[i])

starts_with(s, prefix) ==
    Len(s) >= Len(prefix) /\ SubSeq(s, 1, Len(prefix)) = prefix

ends_with(s, suffix) ==
    Len(s) >= Len(suffix)
    /\ SubSeq(s, Len(s) - Len(suffix) + 1, Len(s)) = suffix

\* trimming without removing the line breaks inside
sanitize_keeps_breaks(pattern) == trim(pattern)

\* trimming the front only
sanitize_trim_start(pattern) ==
    trim_start(SelectSeq(pattern, LAMBDA c : ~IsLineBreak(c)))

\* pattern.replace(['\n', '\r'], "").trim()
sanitize_pattern(pattern) ==
    trim(SelectSeq(pattern, LAMBDA c : ~IsLineBreak(c)))

\* a line written without its terminator
write_unterminated(pattern) == pattern

\* one line of text, newline-terminated: writeln!(w, "{pattern}")
writeln(pattern) == pattern \o <<NL>>

\* BufRead::lines: split at \n; a line that was terminated by \n also loses
\* one \r before it; text after the last \n is a line when it is non-empty.
strip_cr(l) ==
    IF l # <<>> /\ l[Len(l)] = CR THEN SubSeq(l, 1, Len(l) - 1) ELSE l

RECURSIVE lines(_)
lines(content) ==
    IF content = <<>> THEN <<>>
    ELSE LET nls == {i \in DOMAIN content : content[i] = NL} IN
         IF nls = {} THEN <<content>>
         ELSE LET i == Min(nls) IN
              <<strip_cr(SubSeq(content, 1, i - 1))>>
                  \o lines(SubSeq(content, i + 1, Len(content)))

----------------------------------------------------------------------------
(* Files.  A path is in one of three conditions: its parent directory is   *)
(* missing, the directory exists but the file does not, or the file exists *)
(* with some content.  What the caller may do with it:                     *)
(*   readable  an existing file can be opened for reading;                 *)
(*   text      its bytes are valid UTF-8, so reading its lines succeeds    *)
(*             (content is its text; a file that is not text holds other   *)
(*             bytes as well, at least one, which count in its length and  *)
(*             which a truncating write removes);                          *)
(*   writable  an existing file can be opened for writing, a missing file  *)
(*             or directory can be created;                                *)
(*   full      the device takes no more bytes: the file can be opened or   *)
(*             created, every write to it fails and writes nothing.        *)
(* A directory at the path exists, cannot be read as lines and cannot be   *)
(* opened for writing.                                                     *)

NoDir ==
    [parent |-> FALSE, exists |-> FALSE, content |-> <<>>,
     readable |-> TRUE, text |-> TRUE, writable |-> TRUE, full |-> FALSE]
NoFile ==
    [parent |-> TRUE, exists |-> FALSE, content |-> <<>>,
     readable |-> TRUE, text |-> TRUE, writable |-> TRUE, full |-> FALSE]
FileOf(content) ==
    [parent |-> TRUE, exists |-> TRUE, content |-> content,
     readable |-> TRUE, text |-> TRUE, writable |-> TRUE, full |-> FALSE]

Unreadable(file) == [file EXCEPT !.readable = FALSE]
NotText(file) == [file EXCEPT !.text = FALSE]
ReadOnly(file) == [file EXCEPT !.writable = FALSE]
Full(file) == [file EXCEPT !.full = TRUE]

\* a directory where the file is expected
DirectoryAt ==
    [parent |-> TRUE, exists |-> TRUE, content |-> <<>>,
     readable |-> TRUE, text |-> FALSE, writable |-> FALSE, full |-> FALSE]

\* The file once OpenOptions::open has created or opened it: a file that
\* is created, and in truncate mode any file, is empty, and so text,
\* whatever it held.
opened(file, append) ==
    IF append /\ file.exists
    THEN [file EXCEPT !.parent = TRUE]
    ELSE [file EXCEPT !.parent = TRUE, !.exists = TRUE, !.content = <<>>,
                      !.text = TRUE]

\* file.metadata().map(|m| m.len()).unwrap_or(0): the length in bytes, the
\* bytes that are not text included (one is counted; the code only tests
\* the length against zero).
metadata_len(file) ==
    IF ~file.exists THEN 0
    ELSE Len(file.content) + (IF file.text THEN 0 ELSE 1)

\* The file once it has been created or opened and holds `content`.
holding(file, content) ==
    [file EXCEPT !.parent = TRUE, !.exists = TRUE, !.content = content]

\* The template ensure_info_exclude_exists writes.
template ==
    <<
       "#", " ", "g", "i", "t", " ", "l", "s", "-", "f", "i", "l", "e", "s", " ", "-", "-", "o", "t", "h", "e", "r", "s", " ", "-", "-", "e", "x", "c", "l", "u", "d", "e", "-", "f", "r", "o", "m", "=", ".", "g", "i", "t", "/", "i", "n", "f", "o", "/", "e", "x", "c", "l", "u", "d", "e", "\n",
       "#", " ", "L", "i", "n", "e", "s", " ", "t", "h", "a", "t", " ", "s", "t", "a", "r", "t", " ", "w", "i", "t", "h", " ", "'", "#", "'", " ", "a", "r", "e", " ", "c", "o", "m", "m", "e", "n", "t", "s", ".", "\n",
       "#", " ", "F", "o", "r", " ", "a", " ", "p", "r", "o", "j", "e", "c", "t", " ", "m", "o", "s", "t", "l", "y", " ", "i", "n", " ", "C", ",", " ", "t", "h", "e", " ", "f", "o", "l", "l", "o", "w", "i", "n", "g", " ", "w", "o", "u", "l", "d", " ", "b", "e", " ", "a", " ", "g", "o", "o", "d", " ", "s", "e", "t", " ", "o", "f", "\n",
       "#", " ", "e", "x", "c", "l", "u", "d", "e", " ", "p", "a", "t", "t", "e", "r", "n", "s", " ", "(", "u", "n", "c", "o", "m", "m", "e", "n", "t", " ", "t", "h", "e", "m", " ", "i", "f", " ", "y", "o", "u", " ", "w", "a", "n", "t", " ", "t", "o", " ", "u", "s", "e", " ", "t", "h", "e", "m", ")", ":", "\n",
       "#", " ", "*", ".", "[", "o", "a", "]", "\n",
       "#", " ", "*", "~", "\n"
    >>

----------------------------------------------------------------------------
(* The ignore store: src/src/ignore.rs.                                    *)

\* validate_file_path(file_path, None): the path resolves when the file
\* exists, or else when its parent directory can be canonicalized.  The base
\* directory check is skipped: every caller passes None.
validate_file_path(file) == file.exists \/ file.parent

\* read_ignore_patterns: [ok, patterns].  The empty set for a file that
\* does not exist; a failure when the file cannot be opened or a line cannot
\* be read; otherwise the trimmed lines that are neither empty nor comments.
read_ignore_patterns(file) ==
    IF ~file.exists THEN [ok |-> TRUE, patterns |-> {}]
    ELSE IF ~file.readable \/ ~file.text
         THEN [ok |-> FALSE, patterns |-> {}]
    ELSE LET ls == lines(file.content) IN
         [ok |-> TRUE,
          patterns |-> {trim(ls[i]) : i \in {j \in DOMAIN ls :
                                                /\ trim(ls[j]) # <<>>
                                                /\ Head(trim(ls[j])) # "#"}}]

\* .iter().map(|p| sanitize_pattern(p))
sanitize_each(pats) == [k \in DOMAIN pats |-> sanitize_pattern(pats[k])]

\* the lines written for a list of patterns, one writeln! each
write_lines(pats) == Flatten([k \in DOMAIN pats |-> writeln(pats[k])])

\* sanitizing without dropping what becomes empty
sanitize_keep_empty(pats) == sanitize_each(pats)

\* The patterns write_ignore_patterns writes: each sanitized, the empty ones
\* dropped.
sanitize_all(pats) ==
    SelectSeq(sanitize_each(pats), LAMBDA p : p # <<>>)

\* no newline before the first pattern
no_leading_newline(file, append) == <<>>

\* In append mode a file of non-zero length in bytes, text or not, gets a
\* newline before the first pattern.
leading_newline(file, append) ==
    IF append /\ metadata_len(file) > 0 THEN <<NL>> ELSE <<>>

\* OpenOptions::open in write_ignore_patterns: append mode asks for read and
\* append access and creates the file, truncate mode asks for write access,
\* creates and truncates.
can_open(file, append) ==
    /\ file.writable
    /\ (append /\ file.exists) => file.readable

\* write_ignore_patterns: [ok, file], the outcome and the file afterwards.
\* The parent directory exists once validate_file_path has passed, so
\* create_dir_all has nothing to create.
write_ignore_patterns(file, pats, append) ==
    IF pats = <<>> THEN [ok |-> TRUE, file |-> file]
    ELSE IF ~validate_file_path(file) THEN [ok |-> FALSE, file |-> file]
    ELSE LET sanitized_patterns == sanitize_all(pats) IN
         IF sanitized_patterns = <<>> THEN [ok |-> TRUE, file |-> file]
         ELSE IF ~can_open(file, append) THEN [ok |-> FALSE, file |-> file]
         ELSE LET f == opened(file, append) IN
              IF file.full
              THEN [ok |-> FALSE, file |-> f]
              ELSE [ok |-> TRUE,
                    file |-> holding(f,
                                     f.content \o leading_newline(f, append)
                                         \o write_lines(sanitized_patterns))]

\* opening the target even when nothing is left to add
write_always(file, patterns_to_add) ==
    IF patterns_to_add # <<>>
    THEN write_ignore_patterns(file, patterns_to_add, TRUE)
    ELSE IF validate_file_path(file)
         THEN [ok |-> TRUE, file |-> holding(file, file.content)]
         ELSE [ok |-> FALSE, file |-> file]

\* writing the remaining patterns in truncate mode
write_truncating(file, patterns_to_add) ==
    IF patterns_to_add # <<>>
    THEN write_ignore_patterns(file, patterns_to_add, FALSE)
    ELSE [ok |-> TRUE, file |-> file]

\* The tail of add_patterns_to_ignore_file: append only when something is
\* left to add.
write_if_any(file, patterns_to_add) ==
    IF patterns_to_add # <<>>
    THEN write_ignore_patterns(file, patterns_to_add, TRUE)
    ELSE [ok |-> TRUE, file |-> file]

\* add_patterns_to_ignore_file: [ok, added, file].
add_patterns_to_ignore_file(file, new_patterns, avoid_duplicates) ==
    IF new_patterns = <<>>
    THEN [ok |-> TRUE, added |-> <<>>, file |-> file]
    ELSE LET existing == IF avoid_duplicates THEN read_ignore_patterns(file)
                         ELSE [ok |-> TRUE, patterns |-> {}]
             existing_patterns == existing.patterns
             patterns_to_add ==
                 SelectSeq(sanitize_each(new_patterns),
                           LAMBDA p : /\ p # <<>>
                                      /\ (~avoid_duplicates
                                            \/ p \notin existing_patterns))
             w == write_if_any(file, patterns_to_add)
         IN  IF ~existing.ok
             THEN [ok |-> FALSE, added |-> <<>>, file |-> file]
             ELSE [ok |-> w.ok,
                   added |-> IF w.ok THEN patterns_to_add ELSE <<>>,
                   file |-> w.file]

\* creating the file empty, without the template
ensure_creates_empty(file) ==
    IF file.exists THEN [ok |-> TRUE, file |-> file]
    ELSE IF ~file.writable THEN [ok |-> FALSE, file |-> file]
    ELSE [ok |-> ~file.full, file |-> holding(file, <<>>)]

\* ensure_info_exclude_exists: [ok, file].  create_dir_all fails when the
\* directory is missing and cannot be created, fs::write when the file
\* cannot be created or, once created, cannot be written.
ensure_info_exclude_exists(file) ==
    IF file.exists THEN [ok |-> TRUE, file |-> file]
    ELSE IF ~file.writable THEN [ok |-> FALSE, file |-> file]
    ELSE IF file.full THEN [ok |-> FALSE, file |-> holding(file, <<>>)]
    ELSE [ok |-> TRUE, file |-> holding(file, template)]

\* counting every position where `pat` occurs, overlapping ones too
matches_count_overlapping(s, pat) ==
    Cardinality({k \in 1..Len(s) :
                    /\ k + Len(pat) - 1 <= Len(s)
                    /\ SubSeq(s, k, k + Len(pat) - 1) = pat})

\* Non-overlapping occurrences of `pat` in `s`, left to right:
\* str::matches(pat).count().
RECURSIVE matches_count(_, _)
matches_count(s, pat) ==
    IF Len(s) < Len(pat) THEN 0
    ELSE IF starts_with(s, pat)
         THEN 1 + matches_count(SubSeq(s, Len(pat) + 1, Len(s)), pat)
         ELSE matches_count(Tail(s), pat)

Issue(pattern, severity, message) ==
    [pattern |-> pattern, severity |-> severity, message |-> message]

BroadPatterns == {<<"*">>, <<"*", "*">>, <<"/">>}

ImportantPatterns ==
    { <<".", "g", "i", "t">>,
      <<".", "g", "i", "t", "i", "g", "n", "o", "r", "e">>,
      <<"R", "E", "A", "D", "M", "E", "*">>,
      <<"L", "I", "C", "E", "N", "S", "E", "*">> }

\* The body of the loop of validate_ignore_patterns: the issues of one
\* pattern, in the order the checks are made.
pattern_issues(original_pattern) ==
    LET pattern == sanitize_pattern(original_pattern) IN
    IF pattern = <<>> THEN <<>>
    ELSE   (IF contains_newline(original_pattern)
            THEN <<Issue(original_pattern, "Error", "newline")>> ELSE <<>>)
        \o (IF /\ starts_with(pattern, <<"/">>)
               /\ ends_with(pattern, <<"/">>)
               /\ Len(pattern) > 2
            THEN <<Issue(pattern, "Info", "slashes")>> ELSE <<>>)
        \o (IF starts_with(pattern, <<".", "/">>)
            THEN <<Issue(pattern, "Info", "redundant")>> ELSE <<>>)
        \o (IF matches_count(pattern, <<"*", "*">>) > 1
            THEN <<Issue(pattern, "Warning", "multiple")>> ELSE <<>>)
        \o (IF pattern \in BroadPatterns
            THEN <<Issue(pattern, "Warning", "broad")>> ELSE <<>>)
        \o (IF pattern \in ImportantPatterns
            THEN <<Issue(pattern, "Warning", "important")>> ELSE <<>>)

validate_ignore_patterns(pats) ==
    Flatten([k \in DOMAIN pats |-> pattern_issues(pats[k])])

----------------------------------------------------------------------------
(* Operations on the store, one record of the log each.                    *)

Rec(name, flag, ok, added, read, issues, pre, post) ==
    [name |-> name, flag |-> flag, ok |-> ok, added |-> added,
     read |-> read, issues |-> issues, pre |-> pre, post |-> post]

\* Raw patterns the store is exercised with: plain ones, one that needs
\* sanitizing (and then equals a plain one), one that sanitizes to nothing,
\* one that reads back as a comment, and one with a line break inside.
StorePatterns ==
    { <<"a">>, <<"b">>, <<" ", "a", NL>>, <<CR, NL>>, <<"#", "c">>,
      <<"a", NL, "b">> }

\* The target file before the first operation.
InitialFiles ==
    { NoDir, NoFile, FileOf(<<>>),
      FileOf(<<"a", NL>>),
      FileOf(<<"b">>),
      FileOf(<<"#", "c", NL, " ", "a", " ", CR, NL>>),
      Unreadable(FileOf(<<"a", NL>>)),
      NotText(FileOf(<<"a", NL>>)),
      NotText(FileOf(<<>>)),
      FileOf(<<"b", CR>>),
      DirectoryAt,
      ReadOnly(FileOf(<<"a", NL>>)),
      ReadOnly(NoFile),
      Full(NoFile) }

PatternLists(pool) == UNION {[1..n -> pool] : n \in 0..MaxPats}

NoCalls ==
    /\ cell = "none"
    /\ tpc = "none"
    /\ tq = "none"
    /\ ret = "none"
    /\ gitRuns = "none"

InitStore ==
    /\ patterns \in PatternLists(StorePatterns)
    /\ fs \in [{"target"} -> InitialFiles]
    /\ log = <<>>
    /\ env = "none"
    /\ NoCalls

Target == fs["target"]

others == <<patterns, env, cell, tpc, tq, ret, gitRuns>>

\* read_ignore_patterns(target)
Read ==
    /\ Len(log) < MaxCalls
    /\ log' = Append(log, Rec("read", FALSE,
                              read_ignore_patterns(Target).ok, <<>>,
                              read_ignore_patterns(Target).patterns, <<>>,
                              Target, Target))
    /\ UNCHANGED <<fs, others>>

\* write_ignore_patterns(target, patterns, append)
Write ==
    \E append \in BOOLEAN :
        LET r == write_ignore_patterns(Target, patterns, append) IN
        /\ Len(log) < MaxCalls
        /\ log' = Append(log, Rec("write", append, r.ok, <<>>, {}, <<>>,
                                  Target, r.file))
        /\ fs' = [fs EXCEPT !["target"] = r.file]
        /\ UNCHANGED others

\* add_patterns_to_ignore_file(target, patterns, avoid_duplicates, _)
Add ==
    \E avoid_duplicates \in BOOLEAN :
        LET r == add_patterns_to_ignore_file(Target, patterns,
                                             avoid_duplicates) IN
        /\ Len(log) < MaxCalls
        /\ log' = Append(log, Rec("add", avoid_duplicates, r.ok, r.added, {},
                                  <<>>, Target, r.file))
        /\ fs' = [fs EXCEPT !["target"] = r.file]
        /\ UNCHANGED others

\* ensure_info_exclude_exists(target)
Ensure ==
    LET r == ensure_info_exclude_exists(Target) IN
    /\ Len(log) < MaxCalls
    /\ log' = Append(log, Rec("ensure", FALSE, r.ok, <<>>, {}, <<>>,
                              Target, r.file))
    /\ fs' = [fs EXCEPT !["target"] = r.file]
    /\ UNCHANGED others

\* validate_ignore_patterns(patterns)
Validate ==
    /\ Len(log) < MaxCalls
    /\ log' = Append(log, Rec("validate", FALSE, TRUE, <<>>, {},
                              validate_ignore_patterns(patterns),
                              Target, Target))
    /\ UNCHANGED <<fs, others>>

NextStore == Read \/ Write \/ Add \/ Ensure \/ Validate

SpecStore == InitStore /\ [][NextStore]_vars

----------------------------------------------------------------------------
(* The context resolver: src/src/git.rs.  What the git process answers to  *)
(* one query is a reply [spawned, success, stdout]: whether the process    *)
(* could be started, whether it exited with status zero, and its trimmed   *)
(* standard output: "" (empty), "path" (a path that canonicalizes) or      *)
(* "bad" (text that does not).  A reply also carries the standard error    *)
(* text of the process and the working directory it ran in ("unavailable"  *)
(* when the directory cannot be determined).                               *)

Ok(value) == [ok |-> TRUE, value |-> value]
Err(error) == [ok |-> FALSE, value |-> error]

Reply(spawned, success, stdout) ==
    [spawned |-> spawned, success |-> success, stdout |-> stdout,
     stderr |-> <<>>, cwd |-> "cwd"]

\* the same reply with another standard error text and working directory
ReplyWith(reply, stderr, cwd) ==
    [reply EXCEPT !.stderr = stderr, !.cwd = cwd]

\* env::current_dir().unwrap_or_else(|_| PathBuf::from("."))
current_dir(reply) == IF reply.cwd = "unavailable" THEN "." ELSE reply.cwd

\* GitError::NotInRepository { cwd, message }
NotInRepository(cwd, message) ==
    [ok |-> FALSE, value |-> "NotInRepository", cwd |-> cwd,
     message |-> message]

\* run_git_command
run_git_command(reply) ==
    IF ~reply.spawned THEN Err("NotFound")
    ELSE IF ~reply.success
         THEN NotInRepository(current_dir(reply), trim(reply.stderr))
    ELSE IF reply.stdout = "" THEN Err("CommandFailed")
    ELSE Ok(reply.stdout)

\* taking git's output for a path without canonicalizing it
validate_git_path_unchecked(path) == Ok(path)

\* validate_git_path
validate_git_path(path) ==
    IF path = "path" THEN Ok(path) ELSE Err("CommandFailed")

\* The closure get_git_dir and get_repo_root hand to get_or_init.
resolve(reply) ==
    LET output == run_git_command(reply) IN
    IF output.ok THEN validate_git_path(output.value) ELSE output

\* get_git_dir()? followed by join("info").join("exclude")
join_info_exclude(git_dir) ==
    IF git_dir.ok THEN Ok("exclude") ELSE git_dir

\* get_repo_root()? followed by join(".gitignore")
join_gitignore(repo_root) ==
    IF repo_root.ok THEN Ok("gitignore") ELSE repo_root

\* get_exclude_file_path in a process whose cache is empty:
\* <git-dir>/info/exclude
get_exclude_file_path(reply) == join_info_exclude(resolve(reply))

\* get_gitignore_path in a process whose cache is empty:
\* <repo-root>/.gitignore
get_gitignore_path(reply) == join_gitignore(resolve(reply))

\* get_global_gitignore_path, with one candidate location: the candidate is
\* returned when it exists on disk.
get_global_gitignore_path(files) ==
    IF files["global"].exists THEN Ok("global") ELSE Err("None")

----------------------------------------------------------------------------
(* The command surface (src/src/main.rs) and the library entry points      *)
(* (src/src/lib.rs).                                                       *)

HasSeverity(issues, severity) ==
    \E i \in DOMAIN issues : issues[i].severity = severity

\* blocking only when every issue is an Error
blocks_when_all_errors(issues) ==
    issues # <<>> /\ \A i \in DOMAIN issues : issues[i].severity = "Error"

\* has_blocking_issues
has_blocking_issues(issues) == HasSeverity(issues, "Error")

\* get_target_file
get_target_file(local, global, files, reply) ==
    IF local /\ global THEN Err("BothLocalAndGlobal")
    ELSE IF global
         THEN LET g == get_global_gitignore_path(files) IN
              IF g.ok THEN g ELSE Err("NoGlobalGitignore")
    ELSE IF local THEN get_exclude_file_path(reply)
    ELSE get_gitignore_path(reply)

\* The outcome of one invocation: whether it succeeded, the error category
\* when it did not, the issues validation found, the patterns added, the
\* target path, the stages gone through and the file system afterwards.
Outcome(ok, error, issues, added, target, stages, files) ==
    [ok |-> ok, error |-> error, issues |-> issues, added |-> added,
     target |-> target, stages |-> stages, files |-> files]

\* The steps common to run and the library functions once the target is
\* known: ensure the exclude file when asked, then add.
ensure_and_add(files, path, pats, ensure, avoid_duplicates, issues, stages) ==
    LET e == IF ensure THEN ensure_info_exclude_exists(files[path])
             ELSE [ok |-> TRUE, file |-> files[path]]
        files1 == [files EXCEPT ![path] = e.file]
        st1 == stages \o (IF ensure THEN <<"EnsureExists">> ELSE <<>>)
        a == add_patterns_to_ignore_file(e.file, pats, avoid_duplicates)
        read_failed == /\ avoid_duplicates
                       /\ ~read_ignore_patterns(e.file).ok
        st2 == st1 \o (IF pats = <<>> THEN <<>>
                       ELSE (IF avoid_duplicates THEN <<"Read">> ELSE <<>>)
                            \o (IF read_failed THEN <<>>
                                ELSE <<"Filter">>
                                     \o (IF a.added # <<>> \/ ~a.ok
                                         THEN <<"Write">> ELSE <<>>)))
    IN  IF ~e.ok
        THEN Outcome(FALSE, "FileError", issues, <<>>, path, st1, files1)
        ELSE IF ~a.ok
        THEN Outcome(FALSE, "FileError", issues, <<>>, path, st2,
                     [files1 EXCEPT ![path] = a.file])
        ELSE Outcome(TRUE, "", issues, a.added, path, st2 \o <<"Report">>,
                     [files1 EXCEPT ![path] = a.file])

\* resolving the target before the patterns are validated
run_resolving_first(pats, local, global, no_validate, allow_duplicates, files, reply) ==
    LET validation_level == IF no_validate THEN "None" ELSE "Warn"
        target_file == get_target_file(local, global, files, reply)
        st0 == <<"Resolve">>
    IN  IF ~target_file.ok
        THEN Outcome(FALSE, target_file.value, <<>>, <<>>, "", st0, files)
        ELSE LET issues == IF validation_level # "None"
                           THEN validate_ignore_patterns(pats) ELSE <<>>
                 st1 == st0 \o (IF validation_level # "None"
                                THEN <<"Validate">> ELSE <<>>)
             IN  IF has_blocking_issues(issues)
                 THEN Outcome(FALSE, "ValidationFailed", issues, <<>>, "",
                              st1, files)
                 ELSE ensure_and_add(files, target_file.value, pats, local,
                                     ~allow_duplicates, issues, st1)

\* run, given the parsed arguments.
run(pats, local, global, no_validate, allow_duplicates, files, reply) ==
    LET validation_level == IF no_validate THEN "None" ELSE "Warn"
        issues == IF validation_level # "None"
                  THEN validate_ignore_patterns(pats) ELSE <<>>
        st0 == IF validation_level # "None" THEN <<"Validate">> ELSE <<>>
    IN  IF has_blocking_issues(issues)
        THEN Outcome(FALSE, "ValidationFailed", issues, <<>>, "", st0, files)
        ELSE LET target_file == get_target_file(local, global, files, reply)
                 st1 == st0 \o <<"Resolve">>
             IN  IF ~target_file.ok
                 THEN Outcome(FALSE, target_file.value, issues, <<>>, "",
                              st1, files)
                 ELSE ensure_and_add(files, target_file.value, pats, local,
                                     ~allow_duplicates, issues, st1)

\* rejecting on any Warning or Error, whatever the level
rejects_warnings_at_any_level(pats, validation_level) ==
    LET issues == validate_ignore_patterns(pats) IN
    /\ validation_level # "None"
    /\ (HasSeverity(issues, "Error") \/ HasSeverity(issues, "Warning"))

\* validate_patterns_for_library: TRUE when the patterns are rejected.
validate_patterns_for_library(pats, validation_level) ==
    IF validation_level = "None" THEN FALSE
    ELSE LET issues == validate_ignore_patterns(pats)
             has_errors == HasSeverity(issues, "Error")
             has_warnings == HasSeverity(issues, "Warning")
         IN  has_errors \/ (validation_level = "Strict" /\ has_warnings)

\* add_patterns_to_gitignore, add_patterns_to_exclude and
\* add_patterns_to_global: validate, resolve the path, ensure the exclude
\* file (exclude only), add with dedup.
add_patterns_to(which, pats, validation_level, files, reply) ==
    LET issues == IF validation_level = "None" THEN <<>>
                  ELSE validate_ignore_patterns(pats)
        st0 == IF validation_level # "None" THEN <<"Validate">> ELSE <<>>
    IN  IF validate_patterns_for_library(pats, validation_level)
        THEN Outcome(FALSE, "ValidationFailed", issues, <<>>, "", st0, files)
        ELSE LET path == CASE which = "gitignore" -> get_gitignore_path(reply)
                           [] which = "exclude" -> get_exclude_file_path(reply)
                           [] which = "global" ->
                                  LET g == get_global_gitignore_path(files) IN
                                  IF g.ok THEN g ELSE Err("NoGlobalGitignore")
                 st1 == st0 \o <<"Resolve">>
             IN  IF ~path.ok
                 THEN Outcome(FALSE, path.value, issues, <<>>, "", st1, files)
                 ELSE ensure_and_add(files, path.value, pats,
                                     which = "exclude", TRUE, issues, st1)

\* Raw patterns the command surface is exercised with: a clean one, one with
\* a newline (Error), a broad one (Warning), a redundant prefix (Info) and
\* one that sanitizes to nothing.
RunPatterns ==
    { <<"a">>, <<" ", "a", NL>>, <<"*">>, <<".", "/", "a">>, <<CR, NL>> }

\* The replies of git the command surface is exercised with: a path, git
\* missing, not in a repository, and output that does not canonicalize.
RunReplies ==
    { Reply(TRUE, TRUE, "path"), Reply(FALSE, FALSE, ""),
      Reply(TRUE, FALSE, ""), Reply(TRUE, TRUE, "bad") }

\* File systems before the invocation.  The repository root exists whenever
\* git names it, so .gitignore is never without its directory; .git/info may
\* be missing; the global file is found only when it exists.
RunFiles ==
    { f \in [{"gitignore", "exclude", "global"} ->
                {NoDir, NoFile, FileOf(<<"a", NL>>), ReadOnly(NoDir),
                 ReadOnly(NoFile), Unreadable(FileOf(<<"a", NL>>))}] :
        /\ f["gitignore"] \in {NoFile, FileOf(<<"a", NL>>),
                                Unreadable(FileOf(<<"a", NL>>))}
        /\ f["global"] \in {NoFile, FileOf(<<"a", NL>>)} }

InitRun ==
    /\ patterns \in PatternLists(RunPatterns)
    /\ fs \in RunFiles
    /\ env \in RunReplies
    /\ log = <<>>
    /\ NoCalls

RunRec(name, req, pre, out) ==
    [name |-> name, req |-> req, pre |-> pre, ok |-> out.ok,
     error |-> out.error, issues |-> out.issues, added |-> out.added,
     target |-> out.target, stages |-> out.stages, post |-> out.files]

\* One invocation of the command line: git-ignore [--local] [--global]
\* [--no-validate] [--allow-duplicates] PATTERN...
RunCli ==
    \E local, global, no_validate, allow_duplicates \in BOOLEAN :
        LET out == run(patterns, local, global, no_validate,
                       allow_duplicates, fs, env)
            req == [local |-> local, global |-> global,
                    level |-> IF no_validate THEN "None" ELSE "Warn",
                    avoid_duplicates |-> ~allow_duplicates]
        IN  /\ log = <<>>
            /\ patterns # <<>>
            /\ log' = <<RunRec("run", req, fs, out)>>
            /\ fs' = out.files
            /\ UNCHANGED others

\* One call of add_patterns_to_gitignore, add_patterns_to_exclude or
\* add_patterns_to_global.
AddPatternsTo ==
    \E which \in {"gitignore", "exclude", "global"},
       validation_level \in {"None", "Warn", "Strict"} :
        LET out == add_patterns_to(which, patterns, validation_level, fs, env)
            req == [local |-> which = "exclude", global |-> which = "global",
                    level |-> validation_level, avoid_duplicates |-> TRUE]
        IN  /\ log = <<>>
            /\ log' = <<RunRec("lib", req, fs, out)>>
            /\ fs' = out.files
            /\ UNCHANGED others

NextRun == RunCli \/ AddPatternsTo

SpecRun == InitRun /\ [][NextRun]_vars

----------------------------------------------------------------------------
(* The write-once caches GIT_DIR_CACHE and REPO_ROOT_CACHE of git.rs, used *)
(* from several threads.  A OnceLock is uninitialized, being initialized   *)
(* by one thread (the others that call get_or_init block), or holds its    *)
(* value for good.                                                         *)

Threads == 1..MaxThreads

Queries == {"git_dir", "repo_root"}

Uninit == [st |-> "uninit"]
Running(t) == [st |-> "running", by |-> t]
Done(value) == [st |-> "done", value |-> value]

\* What git may answer when it is spawned; the answer may differ from one
\* spawn to the next (the working directory or the repository changed).
CacheReplies ==
    { Reply(TRUE, TRUE, "path"), Reply(TRUE, FALSE, ""), Reply(FALSE, FALSE, "") }

\* a cache that keeps only a successful resolution
cache_success_only(outcome) == IF outcome.ok THEN Done(outcome) ELSE Uninit

\* What get_or_init leaves in the cell once the closure returned: the
\* Result, a path or a failure alike.
cache_result(outcome) == Done(outcome)

InitCache ==
    /\ cell = [q \in Queries |-> Uninit]
    /\ tpc = [t \in Threads |-> "idle"]
    /\ tq = [t \in Threads |-> "git_dir"]
    /\ ret = [t \in Threads |-> <<>>]
    /\ gitRuns = [q \in Queries |-> 0]
    /\ env = "none"
    /\ patterns = <<>>
    /\ fs = "none"
    /\ log = <<>>

Returned(t, q, value) == Append(ret[t], [query |-> q, value |-> value])

\* get_git_dir / get_repo_root when the cell already holds its value
CallCached(t) ==
    \E q \in Queries :
        /\ tpc[t] = "idle" /\ Len(ret[t]) < MaxCalls
        /\ cell[q].st = "done"
        /\ ret' = [ret EXCEPT ![t] = Returned(t, q, cell[q].value)]
        /\ tq' = [tq EXCEPT ![t] = q]
        /\ UNCHANGED <<cell, tpc, gitRuns, env, patterns, fs, log>>

\* the first caller of get_or_init: it will run the closure
CallInit(t) ==
    \E q \in Queries :
        /\ tpc[t] = "idle" /\ Len(ret[t]) < MaxCalls
        /\ cell[q].st = "uninit"
        /\ cell' = [cell EXCEPT ![q] = Running(t)]
        /\ tpc' = [tpc EXCEPT ![t] = "init"]
        /\ tq' = [tq EXCEPT ![t] = q]
        /\ UNCHANGED <<ret, gitRuns, env, patterns, fs, log>>

\* a caller of get_or_init while another thread runs the closure: it blocks
CallWait(t) ==
    \E q \in Queries :
        /\ tpc[t] = "idle" /\ Len(ret[t]) < MaxCalls
        /\ cell[q].st = "running"
        /\ tpc' = [tpc EXCEPT ![t] = "wait"]
        /\ tq' = [tq EXCEPT ![t] = q]
        /\ UNCHANGED <<cell, ret, gitRuns, env, patterns, fs, log>>

\* the closure: spawn git, classify its answer, store the Result, return it
Resolve(t) ==
    \E reply \in CacheReplies :
        LET q == tq[t]
            outcome == resolve(reply)
        IN  /\ tpc[t] = "init"
            /\ gitRuns' = [gitRuns EXCEPT ![q] = @ + 1]
            /\ env' = reply
            /\ cell' = [cell EXCEPT ![q] = cache_result(outcome)]
            /\ ret' = [ret EXCEPT ![t] = Returned(t, q, outcome)]
            /\ tpc' = [tpc EXCEPT ![t] = "idle"]
            /\ UNCHANGED <<tq, patterns, fs, log>>

\* a blocked caller resumes once the initializer is done: it returns the
\* value when there is one, and calls again when the cell is empty
Wake(t) ==
    /\ tpc[t] = "wait"
    /\ cell[tq[t]].st # "running"
    /\ tpc' = [tpc EXCEPT ![t] = "idle"]
    /\ ret' = [ret EXCEPT ![t] = IF cell[tq[t]].st = "done"
                                 THEN Returned(t, tq[t], cell[tq[t]].value)
                                 ELSE @]
    /\ UNCHANGED <<cell, tq, gitRuns, env, patterns, fs, log>>

NextCache ==
    \E t \in Threads :
        CallCached(t) \/ CallInit(t) \/ CallWait(t) \/ Resolve(t) \/ Wake(t)

SpecCache == InitCache /\ [][NextCache]_vars

----------------------------------------------------------------------------
(* The global ignore file lookup (src/src/git.rs), with every candidate    *)
(* location: the answer of `git config --global core.excludesfile`, the    *)
(* two environment variables and the files that exist.                     *)

\* Path::starts_with("~") and Path::is_absolute on the configured values
\* the lookup is run with.
starts_with_tilde(path) == path = "~/ignore"
is_absolute(path) == path = "/abs/ignore"

\* The environment of one lookup: git's answer, whether HOME and
\* XDG_CONFIG_HOME are set, and which candidate files exist.
GlobalEnv(config, home, xdg_config, exists) ==
    [config |-> config, home |-> home, xdg_config |-> xdg_config,
     exists |-> exists]

\* looking at $HOME/.gitignore before $HOME/.gitignore_global
default_location_gitignore_first(e) ==
    IF e.xdg_config /\ "xdg" \in e.exists THEN Ok("xdg")
    ELSE IF e.home /\ "config_home" \in e.exists THEN Ok("config_home")
    ELSE IF e.home /\ "gitignore" \in e.exists THEN Ok("gitignore")
    ELSE IF e.home /\ "gitignore_global" \in e.exists
         THEN Ok("gitignore_global")
    ELSE Err("None")

\* "Check default locations": $XDG_CONFIG_HOME/git/ignore, then under HOME
\* .config/git/ignore, .gitignore_global, .gitignore.
default_location(e) ==
    IF e.xdg_config /\ "xdg" \in e.exists THEN Ok("xdg")
    ELSE IF e.home /\ "config_home" \in e.exists THEN Ok("config_home")
    ELSE IF e.home /\ "gitignore_global" \in e.exists
         THEN Ok("gitignore_global")
    ELSE IF e.home /\ "gitignore" \in e.exists THEN Ok("gitignore")
    ELSE Err("None")

\* get_global_gitignore_path with all its candidates: Ok(candidate) is
\* Some(path), Err("None") is None.  A configured path that needs HOME
\* ends the lookup when HOME is not set.
global_gitignore_path(e) ==
    LET output == run_git_command(e.config) IN
    IF output.ok
    THEN IF (starts_with_tilde(output.value) \/ ~is_absolute(output.value))
            /\ ~e.home
         THEN Err("None")
         ELSE IF "configured" \in e.exists THEN Ok("configured")
              ELSE default_location(e)
    ELSE default_location(e)

GlobalCandidates ==
    {"configured", "xdg", "config_home", "gitignore_global", "gitignore"}

\* git is missing, the key is unset, the value is empty, or it is a
\* `~` path, a relative path or an absolute path.
ConfigReplies ==
    { Reply(FALSE, FALSE, ""), Reply(TRUE, FALSE, ""), Reply(TRUE, TRUE, ""),
      Reply(TRUE, TRUE, "~/ignore"), Reply(TRUE, TRUE, "ignore"),
      Reply(TRUE, TRUE, "/abs/ignore") }

InitGlobal ==
    /\ env \in { GlobalEnv(c, h, x, ex) :
                    c \in ConfigReplies, h \in BOOLEAN, x \in BOOLEAN,
                    ex \in SUBSET GlobalCandidates }
    /\ patterns = <<>>
    /\ fs = "none"
    /\ log = <<>>
    /\ NoCalls

\* One call of get_global_gitignore_path.
GetGlobalGitignorePath ==
    /\ log = <<>>
    /\ log' = <<[name |-> "global", result |-> global_gitignore_path(env)]>>
    /\ UNCHANGED <<patterns, fs, env, cell, tpc, tq, ret, gitRuns>>

NextGlobal == GetGlobalGitignorePath

SpecGlobal == InitGlobal /\ [][NextGlobal]_vars

----------------------------------------------------------------------------
(* The resolver queries called one after the other by one thread           *)
(* (src/src/git.rs): get_git_dir, get_repo_root, get_exclude_file_path     *)
(* and get_gitignore_path, each going through its cache.  env gives the    *)
(* reply git has for each of the two queries.                              *)

\* git cannot be started; git exits non-zero, with or without output, with
\* a diagnostic that has blanks around it or none, in a known or unknown
\* working directory; git exits zero with empty, good or bad output.
ResolveReplies ==
    { Reply(FALSE, FALSE, "") }
    \cup { ReplyWith(Reply(TRUE, FALSE, out), err, cwd) :
               out \in {"", "path"},
               err \in { <<>>, <<" ", "f", NL>> },
               cwd \in {"cwd", "unavailable"} }
    \cup { Reply(TRUE, TRUE, out) : out \in {"", "path", "bad"} }

InitResolve ==
    /\ env \in [Queries -> ResolveReplies]
    /\ cell = [q \in Queries |-> Uninit]
    /\ log = <<>>
    /\ patterns = <<>>
    /\ fs = "none"
    /\ tpc = "none" /\ tq = "none" /\ ret = "none" /\ gitRuns = "none"

\* get_or_init called by the only thread: the stored Result, or the
\* closure's Result when the cell is empty.
get_or_init(q) ==
    IF cell[q] = Uninit THEN resolve(env[q]) ELSE cell[q].value

GetGitDir ==
    /\ Len(log) < MaxCalls
    /\ log' = Append(log, [name |-> "get_git_dir", query |-> "git_dir",
                           result |-> get_or_init("git_dir")])
    /\ cell' = [cell EXCEPT !["git_dir"] =
                    IF @ = Uninit THEN cache_result(resolve(env["git_dir"]))
                    ELSE @]
    /\ UNCHANGED <<patterns, fs, env, tpc, tq, ret, gitRuns>>

GetRepoRoot ==
    /\ Len(log) < MaxCalls
    /\ log' = Append(log, [name |-> "get_repo_root", query |-> "repo_root",
                           result |-> get_or_init("repo_root")])
    /\ cell' = [cell EXCEPT !["repo_root"] =
                    IF @ = Uninit THEN cache_result(resolve(env["repo_root"]))
                    ELSE @]
    /\ UNCHANGED <<patterns, fs, env, tpc, tq, ret, gitRuns>>

GetExcludeFilePath ==
    /\ Len(log) < MaxCalls
    /\ log' = Append(log, [name |-> "get_exclude_file_path",
                           query |-> "git_dir",
                           result |->
                               join_info_exclude(get_or_init("git_dir"))])
    /\ cell' = [cell EXCEPT !["git_dir"] =
                    IF @ = Uninit THEN cache_result(resolve(env["git_dir"]))
                    ELSE @]
    /\ UNCHANGED <<patterns, fs, env, tpc, tq, ret, gitRuns>>

GetGitignorePath ==
    /\ Len(log) < MaxCalls
    /\ log' = Append(log, [name |-> "get_gitignore_path",
                           query |-> "repo_root",
                           result |->
                               join_gitignore(get_or_init("repo_root"))])
    /\ cell' = [cell EXCEPT !["repo_root"] =
                    IF @ = Uninit THEN cache_result(resolve(env["repo_root"]))
                    ELSE @]
    /\ UNCHANGED <<patterns, fs, env, tpc, tq, ret, gitRuns>>

NextResolve ==
    GetGitDir \/ GetRepoRoot \/ GetExcludeFilePath \/ GetGitignorePath

SpecResolve == InitResolve /\ [][NextResolve]_vars

----------------------------------------------------------------------------
(* validate_ignore_patterns on its own (src/src/ignore.rs), applied to     *)
(* lists of patterns that reach every check, alone and together.           *)

ValidatePatterns ==
    { <<"a">>, <<"a", NL>>, <<CR, NL>>, <<" ", "*", " ">>,
      <<"/", "a", "/">>, <<"/", "/">>, <<"/">>,
      <<".", "/", "a">>, <<".", "/">>,
      <<"*">>, <<"*", "*">>, <<"*", "*", "*">>, <<"*", "*", "*", "*">>,
      <<"*", "*", "/", "*", "*">>,
      <<"/", "*", "*", "/", "*", "*", "/">>,
      <<".", "/", "*", "*", "/", "*", "*", CR>>,
      <<".", "g", "i", "t">>,
      <<".", "g", "i", "t", "i", "g", "n", "o", "r", "e">>,
      <<".", "g", "i", "t", "i", "g", "n", "o", "r", "e", NL>>,
      <<"R", "E", "A", "D", "M", "E", "*">>,
      <<"L", "I", "C", "E", "N", "S", "E", "*">>,
      <<"L", "I", "C", "E", "N", "S", "E">> }

InitValidate ==
    /\ patterns \in PatternLists(ValidatePatterns)
    /\ fs = [f \in {"target"} |-> NoFile]
    /\ log = <<>>
    /\ env = "none"
    /\ NoCalls

NextValidate == Validate

SpecValidate == InitValidate /\ [][NextValidate]_vars

----------------------------------------------------------------------------
(* sanitize_pattern on its own (src/src/ignore.rs), applied to every       *)
(* string up to MaxLen characters over a letter, blanks and line breaks.   *)

SanitizeAlphabet == {"a", " ", "\t", NL, CR, NBSP, "U+2028"}

SanitizeInputs == UNION { [1..n -> SanitizeAlphabet] : n \in 0..MaxLen }

InitSanitize ==
    /\ patterns \in { <<p>> : p \in SanitizeInputs }
    /\ fs = "none"
    /\ env = "none"
    /\ log = <<>>
    /\ NoCalls

\* One call of sanitize_pattern on the chosen string.
Sanitize ==
    /\ log = <<>>
    /\ log' = <<[name |-> "sanitize", input |-> patterns[1],
                 output |-> sanitize_pattern(patterns[1])]>>
    /\ UNCHANGED <<patterns, fs, env, cell, tpc, tq, ret, gitRuns>>

NextSanitize == Sanitize

SpecSanitize == InitSanitize /\ [][NextSanitize]_vars

----------------------------------------------------------------------------
(* Claims about the ignore store, checked under SpecStore.                 *)

Entries == DOMAIN log

\* consecutive operations i, i+1 of the log
Pairs == {i \in Entries : i + 1 \in Entries}

\* the distinct non-empty sanitized forms of a pattern list
DistinctForms(pats) == {sanitize_pattern(pats[k]) : k \in DOMAIN pats} \ {<<>>}

\* the lines of a file's content that hold exactly s, surrounding whitespace
\* aside
LinesEqual(content, s) ==
    {k \in DOMAIN lines(content) : trim(lines(content)[k]) = s}

\* two successive add-with-dedup calls with the same list, both successful
DedupTwice(i) ==
    /\ log[i].name = "add" /\ log[i].flag /\ log[i].ok
    /\ log[i + 1].name = "add" /\ log[i + 1].flag /\ log[i + 1].ok

\* C1 (as claimed): for every pattern list and every target file, the second
\* of two successive add-with-dedup calls with the same list returns the empty
\* list, and afterwards every distinct sanitized non-empty pattern of the list
\* is on exactly one line of the file.
C1_DuplicateSuppression ==
    \A i \in Pairs :
        DedupTwice(i) =>
            /\ log[i + 1].added = <<>>
            /\ \A s \in DistinctForms(patterns) :
                   Cardinality(LinesEqual(log[i + 1].post.content, s)) = 1

\* a list of distinct patterns, each non-empty and equal to its sanitized form
SanitizedDistinct(pats) ==
    /\ pats # <<>>
    /\ \A k \in DOMAIN pats : pats[k] # <<>> /\ sanitize_pattern(pats[k]) = pats[k]
    /\ \A k, m \in DOMAIN pats : k # m => pats[k] # pats[m]

\* a write to a file that does not exist in an existing directory, then a read
WriteFreshThenRead(i) ==
    /\ log[i].name = "write" /\ log[i].ok
    /\ ~log[i].pre.exists
    /\ log[i + 1].name = "read"

\* C2 (as claimed): writing distinct, sanitized, non-empty patterns to a fresh
\* file and reading the file back returns exactly the set of those patterns.
C2_RoundTripAsClaimed ==
    \A i \in Pairs :
        (WriteFreshThenRead(i) /\ SanitizedDistinct(patterns)) =>
            log[i + 1].read = Range(patterns)

IsComment(p) == p # <<>> /\ Head(p) = "#"

\* C2 (amended): the round trip returns exactly the set of the patterns
\* written when none of them starts with '#'; a pattern that starts with '#'
\* is written and reads back as a comment.
C2_RoundTrip ==
    \A i \in Pairs :
        ( /\ WriteFreshThenRead(i)
          /\ SanitizedDistinct(patterns)
          /\ \A k \in DOMAIN patterns : ~IsComment(patterns[k]) ) =>
            log[i + 1].read = Range(patterns)

\* two plain patterns written to a fresh file and both read back
C2_Witness ==
    \E i \in Pairs :
        /\ WriteFreshThenRead(i)
        /\ SanitizedDistinct(patterns)
        /\ Len(patterns) = 2
        /\ \A k \in DOMAIN patterns : ~IsComment(patterns[k])
        /\ log[i + 1].read = Range(patterns)
        /\ Cardinality(log[i + 1].read) = 2

\* a pattern that contains \n
ContainsNL(p) == \E k \in DOMAIN p : p[k] = NL

HasErrorFor(issues, p) ==
    \E k \in DOMAIN issues :
        issues[k].severity = "Error" /\ issues[k].pattern = p

\* C4 (as claimed): validation always succeeds, and every input pattern that
\* contains \n has an Error issue in the result.
C4_NewlineIsErrorAsClaimed ==
    \A i \in Entries :
        log[i].name = "validate" =>
            /\ log[i].ok
            /\ \A k \in DOMAIN patterns :
                   ContainsNL(patterns[k]) => HasErrorFor(log[i].issues, patterns[k])

\* C4 (amended): validation always succeeds, and every input pattern that
\* contains \n and is not empty after sanitization has an Error issue in the
\* result; a pattern that sanitizes to the empty string is skipped, newline
\* or not.
C4_NewlineIsError ==
    \A i \in Entries :
        log[i].name = "validate" =>
            /\ log[i].ok
            /\ \A k \in DOMAIN patterns :
                   (ContainsNL(patterns[k]) /\ sanitize_pattern(patterns[k]) # <<>>)
                       => HasErrorFor(log[i].issues, patterns[k])

\* a pattern with a newline that is not empty once sanitized, reported as an
\* Error
C4_Witness ==
    \E i \in Entries :
        /\ log[i].name = "validate"
        /\ \E k \in DOMAIN patterns :
               /\ ContainsNL(patterns[k])
               /\ sanitize_pattern(patterns[k]) # <<>>
               /\ HasErrorFor(log[i].issues, patterns[k])

\* what the claim says add returns: the sanitized forms, in input order, that
\* are non-empty and, with dedup, not among the patterns read from the file
RECURSIVE ExpectedAdded(_, _, _)
ExpectedAdded(pats, present, avoid) ==
    IF pats = <<>> THEN <<>>
    ELSE LET s == sanitize_pattern(Head(pats))
             rest == ExpectedAdded(Tail(pats), present, avoid)
         IN  IF s # <<>> /\ (~avoid \/ s \notin present)
             THEN <<s>> \o rest ELSE rest

AddReturnsExpected(e) ==
    e.added = ExpectedAdded(patterns, read_ignore_patterns(e.pre).patterns,
                            e.flag)

\* C6 (as claimed): a successful add returns the expected list, and the file
\* gains exactly one line per returned pattern, in that order.
C6_AddReturnsWrittenAsClaimed ==
    \A i \in Entries :
        (log[i].name = "add" /\ log[i].ok) =>
            /\ AddReturnsExpected(log[i])
            /\ lines(log[i].post.content)
                   = lines(log[i].pre.content) \o log[i].added

\* the file holds at least one byte, of text or not
NotEmpty(file) == file.exists /\ (file.content # <<>> \/ ~file.text)

\* the newline written before the first pattern when the file already holds
\* something and at least one pattern is written
Separator(e) ==
    IF e.added # <<>> /\ NotEmpty(e.pre) THEN <<NL>> ELSE <<>>

\* C6 (amended): a successful add returns the expected list, and the file's
\* content grows by one newline when the file was not empty (it held at least
\* one byte, of text or not) and something is written, followed by one
\* newline-terminated line per returned pattern, in that order; when the file
\* already ended with a newline this leaves an empty line before the new
\* patterns.
C6_AddReturnsWritten ==
    \A i \in Entries :
        (log[i].name = "add" /\ log[i].ok) =>
            /\ AddReturnsExpected(log[i])
            /\ log[i].post.content
                   = log[i].pre.content \o Separator(log[i])
                       \o write_lines(log[i].added)

\* an add without dedup that writes again a pattern the file already holds,
\* after a separator
C6_Witness ==
    \E i \in Entries :
        /\ log[i].name = "add" /\ log[i].ok /\ ~log[i].flag
        /\ Len(log[i].added) = 2
        /\ log[i].added[1] \in read_ignore_patterns(log[i].pre).patterns
        /\ Separator(log[i]) = <<NL>>
        /\ log[i].post.content # log[i].pre.content

EmptyAfterSanitize(p) == sanitize_pattern(p) = <<>>

\* the list without the patterns that sanitize to the empty string
NonEmptyOnly(pats) == SelectSeq(pats, LAMBDA p : ~EmptyAfterSanitize(p))

\* C10: a pattern whose sanitized form is empty is never written, never
\* returned as added and never reported: the file after a write or an add,
\* the list an add returns and the issues of a validation are those of the
\* same call without such patterns; no empty pattern is returned; and a list
\* of only such patterns leaves the file as it was and yields no issue.
C10_EmptyNeverWritten ==
    \A i \in Entries :
        LET e == log[i]
            kept == NonEmptyOnly(patterns)
        IN  /\ (e.name = "write" /\ e.ok) =>
                   /\ e.post = write_ignore_patterns(e.pre, kept, e.flag).file
                   /\ (kept = <<>> => e.post = e.pre)
            /\ (e.name = "add" /\ e.ok) =>
                   /\ e.post = add_patterns_to_ignore_file(e.pre, kept, e.flag).file
                   /\ e.added = add_patterns_to_ignore_file(e.pre, kept, e.flag).added
                   /\ <<>> \notin Range(e.added)
                   /\ (kept = <<>> => e.post = e.pre /\ e.added = <<>>)
            /\ e.name = "validate" =>
                   /\ e.issues = validate_ignore_patterns(kept)
                   /\ (kept = <<>> => e.issues = <<>>)

\* a list with a newline-only pattern and a real one, written and validated
C10_Witness ==
    /\ \E k \in DOMAIN patterns :
           EmptyAfterSanitize(patterns[k]) /\ patterns[k] # <<>>
    /\ NonEmptyOnly(patterns) # <<>>
    /\ \E i \in Pairs :
           /\ log[i].name = "write" /\ log[i].ok
           /\ log[i].post # log[i].pre
           /\ log[i + 1].name = "validate"

----------------------------------------------------------------------------
(* Claims about one invocation, checked under SpecRun.                     *)

\* validation is enabled: the command line without --no-validate, or the
\* library at level Warn or Strict
ValidationEnabled(e) == e.req.level \in {"Warn", "Strict"}

HasErrorIssue(pats) == HasSeverity(validate_ignore_patterns(pats), "Error")

\* C3: with validation enabled and an Error-severity issue among the
\* patterns, the invocation fails and no file is created or modified.
C3_ErrorAbortsBeforeWrite ==
    \A i \in Entries :
        (ValidationEnabled(log[i]) /\ HasErrorIssue(patterns)) =>
            /\ ~log[i].ok
            /\ log[i].error = "ValidationFailed"
            /\ log[i].post = log[i].pre
            /\ fs = log[i].pre

\* a rejected invocation for the local exclude file, which does not exist,
\* in a repository: without the rejection the file would have been created
C3_Witness ==
    \E i \in Entries :
        /\ log[i].name = "run" /\ log[i].req.local /\ ~log[i].req.global
        /\ ValidationEnabled(log[i]) /\ HasErrorIssue(patterns)
        /\ resolve(env).ok
        /\ ~log[i].pre["exclude"].exists
        /\ ~log[i].ok
        /\ ~fs["exclude"].exists

\* the invocation targets the local exclude file
TargetsExclude(e) == e.req.local /\ ~e.req.global

\* the content of a file after its first n characters
After(content, n) == SubSeq(content, n + 1, Len(content))

NonEmptyLines(content) == SelectSeq(lines(content), LAMBDA l : l # <<>>)

\* C7: when the target is the local exclude file and it does not exist, a
\* successful invocation leaves a file that starts with the template, and
\* the lines after the template are the added patterns, in order.
C7_TemplateThenPatterns ==
    \A i \in Entries :
        (TargetsExclude(log[i]) /\ ~log[i].pre["exclude"].exists /\ log[i].ok) =>
            LET content == log[i].post["exclude"].content IN
            /\ log[i].post["exclude"].exists
            /\ starts_with(content, template)
            /\ NonEmptyLines(After(content, Len(template))) = log[i].added

\* the exclude file, its directory missing, created with the template and
\* two patterns appended
C7_Witness ==
    \E i \in Entries :
        /\ TargetsExclude(log[i]) /\ log[i].ok
        /\ log[i].pre["exclude"] = NoDir
        /\ Len(log[i].added) = 2
        /\ starts_with(fs["exclude"].content, template)
        /\ Len(fs["exclude"].content) > Len(template)

\* the issues of one raw pattern are all warnings, and there is one
WarningOnly(p) ==
    LET issues == validate_ignore_patterns(<<p>>) IN
    /\ issues # <<>>
    /\ \A k \in DOMAIN issues : issues[k].severity = "Warning"

\* C8: at level Warn the invocation is rejected by validation exactly when
\* some issue is an Error; when it is not rejected and succeeds, a pattern
\* with only Warning issues is on a line of the target file afterwards, and
\* is among the added patterns unless dedup found it in the file.
C8_WarningsDoNotBlock ==
    \A i \in Entries :
        log[i].req.level = "Warn" =>
            /\ (log[i].error = "ValidationFailed") <=> HasErrorIssue(patterns)
            /\ log[i].ok =>
                   \A k \in DOMAIN patterns :
                       WarningOnly(patterns[k]) =>
                           LET s == sanitize_pattern(patterns[k])
                               before == log[i].pre[log[i].target]
                               after == log[i].post[log[i].target]
                           IN  /\ LinesEqual(after.content, s) # {}
                               /\ \/ s \in Range(log[i].added)
                                  \/ /\ log[i].req.avoid_duplicates
                                     /\ s \in read_ignore_patterns(before).patterns

\* `*`, which is only warned about, written by the command line at level Warn
C8_Witness ==
    \E i \in Entries :
        /\ log[i].name = "run" /\ log[i].req.level = "Warn" /\ log[i].ok
        /\ HasSeverity(log[i].issues, "Warning")
        /\ <<"*">> \in Range(log[i].added)
        /\ LinesEqual(fs[log[i].target].content, <<"*">>) # {}

\* C9 (as claimed): at library level Strict a call fails and writes nothing
\* whenever validation reports an issue of any severity.
C9_StrictFailsOnAnyIssue ==
    \A i \in Entries :
        ( /\ log[i].name = "lib"
          /\ log[i].req.level = "Strict"
          /\ validate_ignore_patterns(patterns) # <<>> ) =>
            /\ ~log[i].ok
            /\ log[i].post = log[i].pre

----------------------------------------------------------------------------
(* Claims about the path caches, checked under SpecCache.                  *)

\* the outcomes the completed calls of query q returned, over all threads
Outcomes(q) ==
    UNION { {ret[t][k].value : k \in {j \in DOMAIN ret[t] : ret[t][j].query = q}}
            : t \in Threads }

\* C5: for each query git is spawned at most once, every completed call
\* returns the one cached outcome, path or failure, and a failure is not
\* resolved again.
C5_ResolvedOnce ==
    \A q \in Queries :
        /\ gitRuns[q] <= 1
        /\ Cardinality(Outcomes(q)) <= 1
        /\ Outcomes(q) # {} =>
               /\ gitRuns[q] = 1
               /\ cell[q] = Done(CHOOSE o \in Outcomes(q) : TRUE)

\* two threads were handed the same cached failure, one of them twice, after
\* one spawn of git
C5_Witness ==
    \E q \in Queries, t, u \in Threads :
        /\ t # u
        /\ gitRuns[q] = 1
        /\ cell[q].st = "done" /\ ~cell[q].value.ok
        /\ Cardinality({k \in DOMAIN ret[t] : ret[t][k].query = q}) >= 2
        /\ \E k \in DOMAIN ret[u] : ret[u][k].query = q /\ ~ret[u][k].value.ok

\* ---------------------------------------------------------------------
\* C11  An add that returns an empty list leaves the target exactly as it
\*      was: same existence, same bytes, and no parent directory or file
\*      is created.
C11_EmptyAddLeavesFile ==
    \A i \in Entries :
        (log[i].name = "add" /\ log[i].ok /\ log[i].added = <<>>)
            => log[i].post = log[i].pre

\* An add whose every pattern is dropped (empty after sanitizing, or
\* already listed) ran against a target that does not exist, and the
\* target still does not exist.
C11_Witness ==
    \E i \in Entries :
        /\ log[i].name = "add" /\ log[i].ok /\ log[i].added = <<>>
        /\ patterns # <<>>
        /\ ~log[i].pre.exists /\ ~log[i].post.exists

----------------------------------------------------------------------------
(* Claims about the global ignore file lookup, checked under SpecGlobal.   *)

\* The candidates the environment e defines, in the order of the lookup:
\* the configured path (expanded against HOME unless absolute), the XDG
\* location, the three locations under HOME.
ConfiguredCandidate(e) ==
    IF e.config.spawned /\ e.config.success /\ e.config.stdout # ""
       /\ (e.config.stdout = "/abs/ignore" \/ e.home)
    THEN <<"configured">> ELSE <<>>

CandidatesInOrder(e) ==
    ConfiguredCandidate(e)
    \o (IF e.xdg_config THEN <<"xdg">> ELSE <<>>)
    \o (IF e.home THEN <<"config_home", "gitignore_global", "gitignore">>
        ELSE <<>>)

ExistingInOrder(e) ==
    SelectSeq(CandidatesInOrder(e), LAMBDA c : c \in e.exists)

\* ---------------------------------------------------------------------
\* C12  The lookup always answers (a path or None); a path it returns is
\*      the first candidate, in the order configured, XDG, .config/git/ignore,
\*      .gitignore_global, .gitignore, that exists on disk; with HOME known
\*      it returns that candidate whenever one exists; it returns None only
\*      when no candidate exists or HOME is not known.
C12_FirstExistingCandidate ==
    \A i \in Entries :
        log[i].name = "global" =>
            LET result == log[i].result
                existing == ExistingInOrder(env)
            IN  /\ result.ok => (existing # <<>> /\ result.value = Head(existing))
                /\ ~result.ok =>
                       (result.value = "None" /\ (existing = <<>> \/ ~env.home))
                /\ (env.home /\ existing # <<>>) => result.ok

\* The lookup passed over a configured path and an XDG location that do
\* not exist and returned $HOME/.gitignore_global although
\* $HOME/.gitignore exists too.
C12_Witness ==
    \E i \in Entries :
        /\ log[i].name = "global"
        /\ log[i].result = Ok("gitignore_global")
        /\ ConfiguredCandidate(env) # <<>> /\ env.xdg_config
        /\ env.exists = {"gitignore_global", "gitignore"}

----------------------------------------------------------------------------
(* Claims about sanitize_pattern, checked under SpecSanitize.              *)

\* ---------------------------------------------------------------------
\* C13  Sanitizing is idempotent: sanitizing the result of sanitize_pattern
\*      gives the same result; the result holds no \n and no \r and neither
\*      starts nor ends with a whitespace character.
C13_SanitizeIdempotent ==
    \A i \in Entries :
        log[i].name = "sanitize" =>
            LET s == log[i].output IN
            /\ sanitize_pattern(s) = s
            /\ \A k \in DOMAIN s : s[k] \notin {NL, CR}
            /\ s # <<>> => (s[1] \notin Whitespace /\ s[Len(s)] \notin Whitespace)

\* A string with a line break inside and blanks at both ends was
\* sanitized to something shorter and not empty.
C13_Witness ==
    \E i \in Entries :
        /\ log[i].name = "sanitize"
        /\ log[i].input = <<" ", NL, "a">> \/ log[i].input = <<"a", CR, " ">>
        /\ log[i].output = <<"a">>

----------------------------------------------------------------------------
(* Claims about the resolver's failures, checked under SpecResolve.        *)

\* the result of get_git_dir / get_repo_root that entry i is built on
DirResult(i) ==
    IF log[i].name \in {"get_git_dir", "get_repo_root"} THEN log[i].result
    ELSE IF log[i].result.ok THEN Ok("path") ELSE log[i].result

Canonicalizes(out) == out = "path"

\* ---------------------------------------------------------------------
\* C14  get_git_dir and get_repo_root fail with NotFound exactly when git
\*      cannot be started, with NotInRepository (carrying the working
\*      directory, `.` when it cannot be determined, and the trimmed
\*      diagnostic) exactly when git exits
\*      non-zero, with CommandFailed exactly when git exits zero and its
\*      output is empty or does not canonicalize, and return the path
\*      otherwise; get_exclude_file_path and get_gitignore_path return the
\*      same failure, or the path with info/exclude or .gitignore appended.
C14_FailureClassification ==
    \A i \in Entries :
        log[i].name \in {"get_git_dir", "get_repo_root",
                         "get_exclude_file_path", "get_gitignore_path"} =>
            LET reply == env[log[i].query]
                r == DirResult(i)
                kind == IF r.ok THEN "Path" ELSE r.value
            IN  /\ kind = "NotFound" <=> ~reply.spawned
                /\ kind = "NotInRepository" <=>
                       (reply.spawned /\ ~reply.success)
                /\ kind = "NotInRepository" =>
                       /\ r.message = trim(reply.stderr)
                       /\ r.cwd = IF reply.cwd = "unavailable" THEN "."
                                 ELSE reply.cwd
                /\ kind = "CommandFailed" <=>
                       (reply.spawned /\ reply.success
                        /\ ~Canonicalizes(reply.stdout))
                /\ kind = "Path" <=>
                       (reply.spawned /\ reply.success
                        /\ Canonicalizes(reply.stdout))
                /\ r.ok => r.value = "path"
                /\ log[i].name = "get_exclude_file_path" =>
                       log[i].result = IF r.ok THEN Ok("exclude") ELSE r
                /\ log[i].name = "get_gitignore_path" =>
                       log[i].result = IF r.ok THEN Ok("gitignore") ELSE r

\* get_exclude_file_path failed outside a repository, carrying the
\* diagnostic without the blanks around it, and get_gitignore_path then
\* failed on git output that does not canonicalize.
C14_Witness ==
    /\ Len(log) = 2
    /\ log[1].name = "get_exclude_file_path"
    /\ log[1].result = NotInRepository("cwd", <<"f">>)
    /\ env["git_dir"].stderr = <<" ", "f", NL>>
    /\ log[2].name = "get_gitignore_path"
    /\ log[2].result = Err("CommandFailed")
    /\ env["repo_root"].stdout = "bad"

----------------------------------------------------------------------------
(* Further claims about the ignore store, checked under SpecStore.         *)

\* ---------------------------------------------------------------------
\* C15  A write of at least one pattern that is not empty after sanitizing,
\*      to a target whose parent directory does not exist and can be
\*      created, succeeds: the directory and the file exist afterwards and
\*      the file holds the patterns; the path check does not make the
\*      write fail.
C15_WriteCreatesParents ==
    \A i \in Entries :
        ( /\ log[i].name = "write" /\ sanitize_all(patterns) # <<>>
          /\ ~log[i].pre.parent
          /\ log[i].pre.writable /\ ~log[i].pre.full ) =>
            /\ log[i].ok
            /\ log[i].post.parent /\ log[i].post.exists
            /\ log[i].post.content = write_lines(sanitize_all(patterns))

----------------------------------------------------------------------------
(* Claims about the order of the stages of one invocation, checked under   *)
(* SpecRun.                                                                *)

\* the position of a stage in the sequence of stages of an entry, 0 when
\* the entry did not go through it
StageAt(e, stage) ==
    IF \E k \in DOMAIN e.stages : e.stages[k] = stage
    THEN CHOOSE k \in DOMAIN e.stages : e.stages[k] = stage
    ELSE 0

\* the order in which an invocation goes through its stages
StageOrder ==
    <<"Validate", "Resolve", "EnsureExists", "Read", "Filter", "Write",
      "Report">>

StageRank(stage) == CHOOSE r \in DOMAIN StageOrder : StageOrder[r] = stage

\* ---------------------------------------------------------------------
\* C16 as stated: the target is resolved, and for the local target the
\*      exclude file is ensured, before the patterns are validated.
C16_ResolveBeforeValidateAsClaimed ==
    \A i \in Entries :
        StageAt(log[i], "Validate") # 0 =>
            /\ StageAt(log[i], "Resolve") # 0
            /\ StageAt(log[i], "Resolve") < StageAt(log[i], "Validate")
            /\ StageAt(log[i], "EnsureExists") # 0 =>
                   StageAt(log[i], "EnsureExists") < StageAt(log[i], "Validate")

\* ---------------------------------------------------------------------
\* C16  The stages of an invocation happen in the order Validate (when
\*      validation is enabled), Resolve, EnsureExists, Read, Filter, Write,
\*      Report: validation is the first stage whenever it is enabled, an
\*      invocation that validation rejects goes through no other stage and
\*      resolves and ensures nothing, and EnsureExists happens only after
\*      Resolve and before any Read, Filter or Write.
C16_ValidateFirst ==
    \A i \in Entries :
        LET st == log[i].stages IN
        /\ \A j, k \in DOMAIN st :
               j < k => StageRank(st[j]) < StageRank(st[k])
        /\ ValidationEnabled(log[i]) <=> (st # <<>> /\ st[1] = "Validate")
        /\ log[i].error = "ValidationFailed" =>
               (st = <<"Validate">> /\ log[i].post = log[i].pre)
        /\ log[i].ok =>
               /\ StageAt(log[i], "Resolve") # 0
               /\ st[Len(st)] = "Report"

\* A validated invocation for the local exclude file went through every
\* stage, Validate first, and wrote a pattern.
C16_Witness ==
    \E i \in Entries :
        /\ log[i].name = "run"
        /\ log[i].stages = StageOrder
        /\ log[i].added # <<>>
        /\ ~log[i].pre["exclude"].exists

----------------------------------------------------------------------------
(* Claims about validate_ignore_patterns, checked under SpecValidate.      *)

\* occurrences of `**` counted from the left, an occurrence starting only
\* after the previous one ended
RECURSIVE DoubleStarsFrom(_, _)
DoubleStarsFrom(s, k) ==
    IF k + 1 > Len(s) THEN 0
    ELSE IF s[k] = "*" /\ s[k + 1] = "*" THEN 1 + DoubleStarsFrom(s, k + 2)
    ELSE DoubleStarsFrom(s, k + 1)

\* The rule table for a pattern p with sanitized form s: whether each rule
\* applies, its severity and its message, in the order of the table.
RuleTable(p, s) ==
    << [applies |-> \E k \in DOMAIN p : p[k] \in {NL, CR},
        severity |-> "Error", message |-> "newline"],
       [applies |-> Len(s) > 2 /\ s[1] = "/" /\ s[Len(s)] = "/",
        severity |-> "Info", message |-> "slashes"],
       [applies |-> Len(s) >= 2 /\ s[1] = "." /\ s[2] = "/",
        severity |-> "Info", message |-> "redundant"],
       [applies |-> DoubleStarsFrom(s, 1) > 1,
        severity |-> "Warning", message |-> "multiple"],
       [applies |-> s \in {<<"*">>, <<"*", "*">>, <<"/">>},
        severity |-> "Warning", message |-> "broad"],
       [applies |-> s \in { <<".", "g", "i", "t">>,
                            <<".", "g", "i", "t", "i", "g", "n", "o", "r", "e">>,
                            <<"R", "E", "A", "D", "M", "E", "*">>,
                            <<"L", "I", "C", "E", "N", "S", "E", "*">> },
        severity |-> "Warning", message |-> "important"] >>

\* severity and message of the rules of the table that apply to p
TableIssues(p) ==
    LET s == sanitize_pattern(p)
        hits == SelectSeq(RuleTable(p, s), LAMBDA r : r.applies)
    IN  IF s = <<>> THEN <<>>
        ELSE [k \in DOMAIN hits |-> <<hits[k].severity, hits[k].message>>]

\* severity and message of reported issues
Reported(issues) ==
    [k \in DOMAIN issues |-> <<issues[k].severity, issues[k].message>>]

\* ---------------------------------------------------------------------
\* C17  validate_ignore_patterns reports, pattern after pattern in input
\*      order, exactly the rules of the table that apply to the pattern, in
\*      the order of the table, and nothing for a pattern that is empty
\*      after sanitizing; occurrences of `**` are counted from the left
\*      without overlap.
C17_RuleTable ==
    \A i \in Entries :
        log[i].name = "validate" =>
            Reported(log[i].issues)
                = Flatten([k \in DOMAIN patterns |-> TableIssues(patterns[k])])

\* A list whose first pattern triggers an Error, an Info and a Warning and
\* whose second pattern, `***`, triggers nothing was validated.
C17_Witness ==
    \E i \in Entries :
        /\ log[i].name = "validate"
        /\ patterns = << <<".", "/", "*", "*", "/", "*", "*", CR>>,
                         <<"*", "*", "*">> >>
        /\ Reported(log[i].issues)
              = << <<"Error", "newline">>, <<"Info", "redundant">>,
                   <<"Warning", "multiple">> >>

\* s is the beginning of t
IsPrefix(s, t) == Len(s) <= Len(t) /\ SubSeq(t, 1, Len(s)) = s

\* the lines of a content as they are stored: what stands between one
\* newline and the next, a carriage return included
RECURSIVE stored_lines(_)
stored_lines(content) ==
    IF content = <<>> THEN <<>>
    ELSE LET nls == {i \in DOMAIN content : content[i] = NL} IN
         IF nls = {} THEN <<content>>
         ELSE LET i == Min(nls) IN
              <<SubSeq(content, 1, i - 1)>>
                  \o stored_lines(SubSeq(content, i + 1, Len(content)))

\* every pattern read from the file before is read from the file after
KeepsPatterns(pre, post) ==
    LET before == read_ignore_patterns(pre)
        after == read_ignore_patterns(post)
    IN  (before.ok /\ after.ok) => before.patterns \subseteq after.patterns

\* ---------------------------------------------------------------------
\* C18  Append-only: an ensure or an add leaves the content the file had
\*      before it as a prefix of the content after it; a file that existed
\*      still exists, the lines it had (what stands between two newlines,
\*      an unterminated last line included) are the first lines it has
\*      afterwards, unchanged and in the same order, and every pattern
\*      that was read from it is still read from it.
C18_AppendOnly ==
    \A i \in Entries :
        log[i].name \in {"ensure", "add"} =>
            /\ IsPrefix(log[i].pre.content, log[i].post.content)
            /\ log[i].pre.exists => log[i].post.exists
            /\ IsPrefix(stored_lines(log[i].pre.content),
                        stored_lines(log[i].post.content))
            /\ KeepsPatterns(log[i].pre, log[i].post)

\* An ensure created the file from nothing and the add after it appended
\* to the template.
C18_Witness ==
    /\ Len(log) = 2
    /\ log[1].name = "ensure" /\ ~log[1].pre.exists
    /\ log[1].post.content = template
    /\ log[2].name = "add" /\ log[2].added # <<>>
    /\ Len(log[2].post.content) > Len(template)

\* what an add wrote after the content that was there, without the newline
\* that separates it from that content
AddedText(e) ==
    LET new == After(e.post.content, Len(e.pre.content)) IN
    IF NotEmpty(e.pre) /\ e.added # <<>> THEN Tail(new) ELSE new

\* ---------------------------------------------------------------------
\* C19  One pattern per line, with no validation before the add: what a
\*      successful add appends starts on a line of its own (after a
\*      newline when the file held at least one byte, of text or not) and
\*      consists of exactly one newline-terminated line per returned
\*      pattern, each equal to the sanitized form of one raw pattern and
\*      free of line breaks; there are no more new lines than raw patterns,
\*      and the lines that were there (what stands between two newlines, an
\*      unterminated last line included) are unchanged.
C19_OnePatternPerLine ==
    \A i \in Entries :
        (log[i].name = "add" /\ log[i].ok) =>
            LET e == log[i]
                text == AddedText(e)
            IN  /\ IsPrefix(e.pre.content, e.post.content)
                /\ (NotEmpty(e.pre) /\ e.added # <<>>) =>
                       e.post.content[Len(e.pre.content) + 1] = NL
                /\ text # <<>> => text[Len(text)] = NL
                /\ lines(text) = e.added
                /\ Len(lines(text)) <= Len(patterns)
                /\ \A k \in DOMAIN e.added :
                       /\ \E j \in DOMAIN patterns :
                              e.added[k] = sanitize_pattern(patterns[j])
                       /\ ~contains_newline(e.added[k])
                /\ IsPrefix(stored_lines(e.pre.content),
                            stored_lines(e.post.content))

\* A raw pattern with a line break inside was added, with duplicates
\* allowed, to a file whose last line was not terminated, and is on one
\* line of its own.
C19_Witness ==
    \E i \in Entries :
        /\ log[i].name = "add" /\ log[i].ok /\ ~log[i].flag
        /\ patterns = << <<"a", NL, "b">> >>
        /\ log[i].pre.content = <<"b">>
        /\ log[i].added = << <<"a", "b">> >>
        /\ lines(log[i].post.content) = << <<"b">>, <<"a", "b">> >>

====
